---- MODULE Spec2Model ----
(***************************************************************************)
(* Member Contribution & Interest App.                                     *)
(*                                                                         *)
(* Two revisions of the application are modelled:                          *)
(*   "v1"  src/ndunduapp.py   in-memory store (st.session_state.members)   *)
(*   "v2"  src/ndunduapp2.py  table store (members, contributions)         *)
(* The variable app says which revision a behaviour runs; the other        *)
(* revision's store stays empty.                                           *)
(*                                                                         *)
(* Text is a sequence of one-character strings, so that formatting and     *)
(* parsing (strip, split, replace, contains) are computed, not assumed.    *)
(* Money is held in millionths of a currency unit (SCALE), the fixed-point *)
(* stand-in for the program's floating-point numbers.                      *)
(***************************************************************************)
EXTENDS Integers, Sequences, FiniteSets, TLC

VARIABLES app, today, members, db_members, db_contributions, select_member, last

vars == <<app, today, members, db_members, db_contributions, select_member, last>>

----------------------------------------------------------------------------
(* Bounds of the model *)

\* cap on the number of contributions a store holds
MaxContribs == 2

----------------------------------------------------------------------------
(* Program constants *)

\* INTEREST_RATE = 0.12, in millionths
INTEREST_RATE_V1 == 120000

\* INTEREST_RATE = 0.085, in millionths
INTEREST_RATE_V2 == 85000

\* min_value=1.0 of every st.number_input for an amount
MIN_VALUE == 1

\* one currency unit in fixed point
SCALE == 1000 * 1000

----------------------------------------------------------------------------
(* Inputs a user can type *)

\* v1 uses a member id as a key only; v2 also formats it into an option text
\* and parses it back, so its inputs hold an id that ends like a separator
MemberIdInputs_v1 == { <<>>, <<"A">> }

MemberIdInputs_v2 == { <<>>, <<"A">>, <<"A", " ", "-">>, <<"B">> }

NameInputs == { <<>>, <<" ", "x">> }

\* what is typed into "Member ID" and "Name" of v2's form; v2 formats both
\* into an option text, so one member's name holds the separator of that text
MemberInputs_v2 ==
    (MemberIdInputs_v2 \X NameInputs)
        \cup { << <<"B">>, <<"x", " ", "-", " ", "y">> >> }

AmountInputs == { 0, 2 }

DateInputs == { 0, 2 }

\* datetime.date.today() on the day the application is used
TodayInputs == { 1, 2 }

SearchInputs == { <<>>, <<"a">>, <<"b">>, <<"-">> }

----------------------------------------------------------------------------
(* Text *)

Digit(n) == <<"0", "1", "2", "3", "4", "5", "6", "7", "8", "9">>[n + 1]

DigitValue(c) == CHOOSE n \in 0..9 : Digit(n) = c

\* str.lower() on the characters the inputs use
Lower(c) ==
    IF c = "A" THEN "a" ELSE IF c = "B" THEN "b"
    ELSE IF c = "I" THEN "i" ELSE IF c = "D" THEN "d" ELSE c

LowerStr(s) == [i \in 1..Len(s) |-> Lower(s[i])]

\* s[i:] starts with p
StartsAt(s, i, p) ==
    /\ i + Len(p) - 1 <= Len(s)
    /\ \A k \in 1..Len(p) : s[i + k - 1] = p[k]

\* s[i:]
From(s, i) == SubSeq(s, i, Len(s))

RECURSIVE LStrip(_)
LStrip(s) == IF s /= <<>> /\ Head(s) = " " THEN LStrip(Tail(s)) ELSE s

RECURSIVE RStrip(_)
RStrip(s) ==
    IF s /= <<>> /\ s[Len(s)] = " " THEN RStrip(SubSeq(s, 1, Len(s) - 1)) ELSE s

\* str.strip()
Strip(s) == RStrip(LStrip(s))

\* first index >= i at which sep occurs in s, 0 when there is none
RECURSIVE Find(_, _, _)
Find(s, sep, i) ==
    IF i + Len(sep) - 1 > Len(s) THEN 0
    ELSE IF StartsAt(s, i, sep) THEN i
    ELSE Find(s, sep, i + 1)

\* str.split(sep): the parts between non-overlapping occurrences, left to right
RECURSIVE Split(_, _)
Split(s, sep) ==
    LET i == Find(s, sep, 1) IN
    IF i = 0 THEN <<s>>
    ELSE <<SubSeq(s, 1, i - 1)>> \o Split(From(s, i + Len(sep)), sep)

\* str.replace(old, ""): every non-overlapping occurrence removed
RECURSIVE Remove(_, _)
Remove(s, old) ==
    LET i == Find(s, old, 1) IN
    IF i = 0 THEN s
    ELSE SubSeq(s, 1, i - 1) \o Remove(From(s, i + Len(old)), old)

\* Series.str.contains(pat, case=False) for a pattern of plain characters
Contains(s, pat) == Find(LowerStr(s), LowerStr(pat), 1) /= 0

\* date.isoformat(): zero-padded digits, so that text order is date order
IsoFormat(d) == <<Digit(d \div 10), Digit(d % 10)>>

\* pd.to_datetime(text).dt.date
ParseDate(t) == DigitValue(t[1]) * 10 + DigitValue(t[2])

\* f"{amount:,.2f}" of a whole amount
Fmt2f(a) ==
    (IF a < 10 THEN <<Digit(a)>> ELSE <<Digit(a \div 10), Digit(a % 10)>>)
        \o <<".", "0", "0">>

----------------------------------------------------------------------------
(* Arithmetic *)

RECURSIVE SumSeq(_)
SumSeq(s) == IF s = <<>> THEN 0 ELSE Head(s) + SumSeq(Tail(s))

\* (1 + rate) ** d in fixed point, rate in millionths per day; a negative d
\* divides instead of multiplying
RECURSIVE Compound(_, _)
Compound(rate, d) ==
    IF d = 0 THEN SCALE
    ELSE IF d > 0
         THEN LET p == Compound(rate, d - 1) IN p + (p * rate) \div SCALE
         ELSE LET p == Compound(rate, d + 1) IN p - (p * rate) \div (SCALE + rate)

\* the widget without its min_value
number_input_no_min(typed, default) == typed

\* st.number_input(..., value=default, min_value=1.0): the widget never holds
\* a value below min_value; a smaller entry is not taken and the widget keeps
\* its value
number_input(typed, default) == IF typed >= MIN_VALUE THEN typed ELSE default

\* total_value / grand_total, kept as the exact fraction <<numerator, denominator>>
Fraction(n, d) == <<n, d>>

Zero == Fraction(0, 1)

----------------------------------------------------------------------------
(* Revision v1: src/ndunduapp.py *)

\* compute_interest(amount, date): no test of the date.  COMPOUND_FREQUENCY is
\* "daily", so the daily branch is the one that runs
compute_interest_v1(amount, date) ==
    LET delta_days == today - date
        total == amount * Compound(INTEREST_RATE_V1 \div 365, delta_days)
    IN total - amount * SCALE

\* position of member_id among the keys of st.session_state.members, 0 if absent
KeyIndex(member_id) ==
    IF \E i \in 1..Len(members) : members[i].member_id = member_id
    THEN CHOOSE i \in 1..Len(members) : members[i].member_id = member_id
    ELSE 0

\* st.session_state.members[member_id] = {"name": name, "contributions": []}
\* a dict assignment: a new key is appended, an existing key keeps its place
\* and takes the new value
SetMember(member_id, name) ==
    LET i == KeyIndex(member_id)
        value == [member_id |-> member_id, name |-> name, contributions |-> <<>>]
    IN IF i = 0 THEN Append(members, value) ELSE [members EXCEPT ![i] = value]

\* compute_totals(member_id) on the member at key position i
compute_totals_v1(i) ==
    LET contributions == members[i].contributions
        principal == SumSeq([k \in 1..Len(contributions) |->
                                contributions[k].amount * SCALE])
        interest == SumSeq([k \in 1..Len(contributions) |->
                                compute_interest_v1(contributions[k].amount,
                                                    contributions[k].date)])
    IN [principal |-> principal, interest |-> interest,
        total_value |-> principal + interest]

\* number of contributions held by the v1 store
Count_v1 == SumSeq([i \in 1..Len(members) |-> Len(members[i].contributions)])

\* the membership test left out
member_not_found_skipped(c_member_id) == FALSE

\* c_member_id not in st.session_state.members
member_not_found(c_member_id) == KeyIndex(c_member_id) = 0

\* "Add Member" form
add_member_form ==
    /\ app = "v1"
    /\ \E member_id \in MemberIdInputs_v1, name \in NameInputs :
        /\ members' = SetMember(member_id, name)
        /\ last' = [op |-> "add_member", arg |-> member_id,
                    msg |-> "Member added", out |-> <<>>]
    /\ UNCHANGED <<app, today, db_members, db_contributions, select_member>>

\* "Add Contribution" form
add_contribution_form ==
    /\ app = "v1"
    /\ Count_v1 < MaxContribs
    /\ \E c_member_id \in MemberIdInputs_v1, typed \in AmountInputs, date \in DateInputs :
        LET amount == number_input(typed, MIN_VALUE)
            i == KeyIndex(c_member_id)
        IN IF member_not_found(c_member_id)
           THEN /\ members' = members
                /\ last' = [op |-> "add_contribution", arg |-> c_member_id,
                            msg |-> "Member ID not found!", out |-> <<>>]
           ELSE /\ members' = [members EXCEPT ![i].contributions =
                                  Append(@, [amount |-> amount, date |-> date])]
                /\ last' = [op |-> "add_contribution", arg |-> c_member_id,
                            msg |-> "Contribution added successfully!", out |-> <<>>]
    /\ UNCHANGED <<app, today, db_members, db_contributions, select_member>>

\* sum(totals)
grand_total_v1 == SumSeq([i \in 1..Len(members) |-> compute_totals_v1(i).total_value])

\* ratio = total_value / grand_total if grand_total > 0 else 0
ratio_v1(total_value, grand_total) ==
    IF grand_total > 0 THEN Fraction(total_value, grand_total) ELSE Zero

\* the statements of "Generate All Member Statements", one per member in key order
statements_v1 ==
    [i \in 1..Len(members) |->
        LET t == compute_totals_v1(i) IN
        [member_id |-> members[i].member_id, name |-> members[i].name,
         principal |-> t.principal, interest |-> t.interest,
         total_value |-> t.total_value,
         ratio |-> ratio_v1(t.total_value, grand_total_v1)]]

\* "Generate All Member Statements" button
generate_statements_v1 ==
    /\ app = "v1"
    /\ last' = [op |-> "statements", arg |-> <<>>,
                msg |-> "PDF statements generated!", out |-> statements_v1]
    /\ UNCHANGED <<app, today, members, db_members, db_contributions, select_member>>

----------------------------------------------------------------------------
(* Revision v2: src/ndunduapp2.py *)

\* compute_interest(amount, date): a date after today accrues nothing.
\* COMPOUND_FREQUENCY is "daily", so the daily branch is the one that runs
compute_interest_v2(amount, date) ==
    IF date > today THEN 0
    ELSE LET delta_days == today - date
             total == amount * Compound(INTEREST_RATE_V2 \div 365, delta_days)
         IN total - amount * SCALE

\* fetch_members(): the members table, in table order
fetch_members == db_members

\* fetch_contributions(member_id): the rows of the contributions table (of one
\* member when member_id is given and not empty), the date text parsed back
fetch_contributions(member_id) ==
    LET Wanted(r) == member_id = <<>> \/ r.member_id = member_id
        data == SelectSeq(db_contributions, Wanted)
    IN [k \in 1..Len(data) |-> [data[k] EXCEPT !.date = ParseDate(@)]]

\* the members table holds a row with this member_id
Registered(member_id) ==
    \E i \in 1..Len(db_members) : db_members[i].member_id = member_id

\* the contributions table holds a row with this id
Stored(contribution_id) ==
    \E i \in 1..Len(db_contributions) : db_contributions[i].id = contribution_id

\* the identifier the store assigns to its n-th row (a UUID)
NewId(n) == <<"c", Digit(n)>>

\* add_member(member_id, name): the insert, name stripped
add_member(member_id, name) ==
    Append(db_members, [member_id |-> member_id, name |-> Strip(name)])

\* the insert into members raises: member_id is the table's primary key
add_member_raises(member_id) == Registered(member_id)

\* add_contribution(member_id, amount, date): the insert, date as ISO text
add_contribution(member_id, amount, date) ==
    Append(db_contributions,
           [id |-> NewId(Len(db_contributions) + 1), member_id |-> member_id,
            amount |-> amount, date |-> IsoFormat(date)])

\* the insert into contributions raises: member_id references members
add_contribution_raises(member_id) == ~Registered(member_id)

\* the update without its .eq("id", contribution_id) filter
update_contribution_unfiltered(contribution_id, amount, date) ==
    [k \in 1..Len(db_contributions) |->
        [db_contributions[k] EXCEPT !.amount = amount, !.date = IsoFormat(date)]]

\* update_contribution(contribution_id, amount, date): amount and date of the
\* rows whose id is contribution_id; no row matching is not an error
update_contribution(contribution_id, amount, date) ==
    [k \in 1..Len(db_contributions) |->
        IF db_contributions[k].id = contribution_id
        THEN [db_contributions[k] EXCEPT !.amount = amount, !.date = IsoFormat(date)]
        ELSE db_contributions[k]]

\* compute_totals(member_id, contributions_df)
compute_totals_v2(member_id, contributions_df) ==
    LET Mine(r) == r.member_id = member_id
        df == SelectSeq(contributions_df, Mine)
        principal == SumSeq([k \in 1..Len(df) |-> df[k].amount * SCALE])
        interest == SumSeq([k \in 1..Len(df) |->
                                compute_interest_v2(df[k].amount, df[k].date)])
    IN [principal |-> principal, interest |-> interest,
        total_value |-> principal + interest]

\* f"{r['member_id']} - {r['name']}", the options of "Select Member"
member_options ==
    [i \in 1..Len(db_members) |->
        db_members[i].member_id \o <<" ", "-", " ">> \o db_members[i].name]

\* c_member_id, c_member_name = selected.split(" - ") raises unless the
\* option splits in two ("B" and "x - y" give three parts; the id a split in
\* two yields need not be the member's: "A -" and "x" give "A" and "- x")
unpack_raises(selected) == Len(Split(selected, <<" ", "-", " ">>)) /= 2

\* the script run gets past "Add Contribution" to what is below it: there is
\* no form (no members), or the option the selectbox holds unpacks.  The
\* unpacking runs on every script run, before the form's submit button
PastAddContribution == db_members = <<>> \/ ~unpack_raises(select_member)

\* "Add Member" form.  A member added changes the options of "Select Member":
\* the rerun draws the selectbox anew, on its first option
add_member_submit ==
    /\ app = "v2"
    /\ \E input \in MemberInputs_v2 :
       \E member_id \in {input[1]}, name \in {input[2]} :
        IF member_id = <<>> \/ name = <<>>
        THEN /\ db_members' = db_members
             /\ select_member' = select_member
             /\ last' = [op |-> "add_member", arg |-> member_id,
                         msg |-> "All fields required", out |-> <<>>]
        ELSE IF add_member_raises(member_id)
        THEN /\ db_members' = db_members
             /\ select_member' = select_member
             /\ last' = [op |-> "add_member", arg |-> member_id,
                         msg |-> "Member ID already exists", out |-> <<>>]
        ELSE /\ db_members' = add_member(member_id, name)
             /\ select_member' = member_options'[1]
             /\ last' = [op |-> "add_member", arg |-> member_id,
                         msg |-> "Member added", out |-> <<>>]
    /\ UNCHANGED <<app, today, members, db_contributions>>

\* "Add Contribution" form: its submit button is on the page when the run
\* that drew the page got past the unpacking; the option chosen is the one
\* the selectbox holds from the submit on
add_contribution_submit ==
    /\ app = "v2"
    /\ db_members /= <<>>
    /\ PastAddContribution
    /\ Len(db_contributions) < MaxContribs
    /\ \E k \in 1..Len(db_members) :
        /\ select_member' = member_options[k]
        /\ IF unpack_raises(member_options[k])
           THEN /\ db_contributions' = db_contributions
                /\ last' = [op |-> "select_member", arg |-> member_options[k],
                            msg |-> "ValueError", out |-> <<>>]
           ELSE \E c_member_id \in {Split(member_options[k], <<" ", "-", " ">>)[1]} :
                \E typed \in AmountInputs, date \in DateInputs :
                   LET amount == number_input(typed, MIN_VALUE)
                   IN IF add_contribution_raises(c_member_id)
                      THEN /\ db_contributions' = db_contributions
                           /\ last' = [op |-> "add_contribution", arg |-> c_member_id,
                                       msg |-> "APIError", out |-> <<>>]
                      ELSE /\ db_contributions' =
                                   add_contribution(c_member_id, amount, date)
                           /\ last' = [op |-> "add_contribution", arg |-> c_member_id,
                                       msg |-> "Contribution added", out |-> <<>>]
    /\ UNCHANGED <<app, today, members, db_members>>

\* the members whose member_id or name contains the search text
match(search) ==
    LET Hit(r) == Contains(r.member_id, search) \/ Contains(r.name, search)
    IN SelectSeq(fetch_members, Hit)

\* the ledger of a member: fetch_contributions(member_id) with the columns
\* "Interest" and "Total Value" added, in the order the store returns the rows
ledger_of(member_id) ==
    LET df == fetch_contributions(member_id)
    IN [k \in 1..Len(df) |->
          LET interest == compute_interest_v2(df[k].amount, df[k].date)
          IN [id |-> df[k].id, member_id |-> df[k].member_id,
              amount |-> df[k].amount, date |-> df[k].date,
              Interest |-> interest,
              Total_Value |-> df[k].amount * SCALE + interest]]

\* f"ID {r['id']} | {r['date']} | {r['amount']:,.2f}"
label(r) ==
    <<"I", "D", " ">> \o r.id \o <<" ", "|", " ">> \o IsoFormat(r.date)
        \o <<" ", "|", " ">> \o Fmt2f(r.amount)

\* selected.split("|")[0].replace("ID", "").strip()
selected_id_of(selected) == Strip(Remove(Split(selected, <<"|">>)[1], <<"I", "D">>))

Idle == [op |-> "none", arg |-> <<>>, msg |-> "", out |-> <<>>]

\* "Member Ledger Statement": a search that shows a member's ledger
view_ledger ==
    /\ app = "v2"
    /\ PastAddContribution
    /\ db_members /= <<>>
    /\ \E search \in SearchInputs :
        /\ search /= <<>>
        /\ \E hits \in {match(search)} :
              IF hits = <<>>
              THEN last' = [op |-> "ledger", arg |-> search,
                            msg |-> "No matching member found", out |-> <<>>]
              ELSE last' = [op |-> "ledger", arg |-> hits[1].member_id,
                            msg |-> "", out |-> ledger_of(hits[1].member_id)]
    /\ UNCHANGED <<app, today, members, db_members, db_contributions, select_member>>

\* the members a search can show: m = match.iloc[0] of some search text
found ==
    { hits[1] : hits \in { match(search) : search \in SearchInputs \ {<<>>} } \ {<<>>} }

\* "edit_contribution" form under the ledger of the member found
edit_contribution_submit ==
    /\ app = "v2"
    /\ PastAddContribution
    /\ \E shown \in {found}, i \in 1..Len(db_members) :
        /\ db_members[i] \in shown
        /\ \E ledger \in {ledger_of(db_members[i].member_id)} :
           \E k \in 1..Len(ledger) :
           \E selected_id \in {selected_id_of(label(ledger[k]))} :
           \E rows \in {SelectSeq(ledger, LAMBDA r : r.id = selected_id)} :
               IF rows = <<>>
               THEN /\ db_contributions' = db_contributions
                    /\ last' = [op |-> "update_contribution", arg |-> selected_id,
                                msg |-> "IndexError", out |-> <<>>]
               ELSE \E typed \in AmountInputs, new_date \in DateInputs :
                       LET new_amount == number_input(typed, rows[1].amount)
                       IN /\ db_contributions' =
                               update_contribution(selected_id, new_amount, new_date)
                          /\ last' = [op |-> "update_contribution",
                                      arg |-> selected_id,
                                      msg |-> "Contribution updated successfully",
                                      out |-> <<>>]
    /\ UNCHANGED <<app, today, members, db_members, select_member>>

\* grand_total += t over the members
grand_total_v2 ==
    SumSeq([i \in 1..Len(db_members) |->
              compute_totals_v2(db_members[i].member_id,
                                fetch_contributions(<<>>)).total_value])

\* the division without its guard
ratio_v2_unguarded(t, grand_total) == Fraction(t, grand_total)

\* ratio = t / grand_total if grand_total else 0
ratio_v2(t, grand_total) ==
    IF grand_total /= 0 THEN Fraction(t, grand_total) ELSE Zero

\* the statements of "Generate All Member Statements", one per member
statements_v2 ==
    [i \in 1..Len(db_members) |->
        LET t == compute_totals_v2(db_members[i].member_id, fetch_contributions(<<>>))
        IN [member_id |-> db_members[i].member_id, name |-> db_members[i].name,
            principal |-> t.principal, interest |-> t.interest,
            total_value |-> t.total_value,
            ratio |-> ratio_v2(t.total_value, grand_total_v2)]]

\* "Generate All Member Statements" button
generate_statements_v2 ==
    /\ app = "v2"
    /\ PastAddContribution
    /\ db_members /= <<>>
    /\ last' = [op |-> "statements", arg |-> <<>>,
                msg |-> "All statements generated successfully",
                out |-> statements_v2]
    /\ UNCHANGED <<app, today, members, db_members, db_contributions, select_member>>

\* update_contribution called by its caller with any identifier
update_contribution_call ==
    /\ app = "v2"
    /\ \E contribution_id \in {NewId(1), NewId(9)},
          amount \in AmountInputs, date \in DateInputs :
        /\ db_contributions' = update_contribution(contribution_id, amount, date)
        /\ last' = [op |-> "update_contribution", arg |-> contribution_id,
                    msg |-> "Contribution updated successfully", out |-> <<>>]
    /\ UNCHANGED <<app, today, members, db_members, select_member>>

----------------------------------------------------------------------------
(* Specifications *)

Init ==
    /\ app \in {"v1", "v2"}
    /\ today \in TodayInputs
    /\ members = <<>>
    /\ db_members = <<>>
    /\ db_contributions = <<>>
    /\ select_member = <<>>
    /\ last = Idle

\* the two applications, driven through their forms and buttons
Next ==
    \/ add_member_form
    \/ add_contribution_form
    \/ generate_statements_v1
    \/ add_member_submit
    \/ add_contribution_submit
    \/ view_ledger
    \/ edit_contribution_submit
    \/ generate_statements_v2

Spec == Init /\ [][Next]_vars

\* the v2 store functions, update_contribution also called directly
NextStore ==
    \/ add_member_submit
    \/ add_contribution_submit
    \/ update_contribution_call

SpecStore == Init /\ [][NextStore]_vars

----------------------------------------------------------------------------
(* Properties *)

StoresUnchanged ==
    /\ members' = members
    /\ db_members' = db_members
    /\ db_contributions' = db_contributions

\* C1: registering a member_id that is already registered fails with a
\* duplicate-member error and leaves the store unchanged (the member's name
\* and contributions stay, one member holds the id).  A registration that
\* also lacks a field may be refused for that reason.
DuplicateRegistrationRejected ==
    [][ (last'.op = "add_member"
            /\ (KeyIndex(last'.arg) /= 0 \/ Registered(last'.arg)))
        => /\ StoresUnchanged
           /\ last'.msg \in {"Member ID already exists", "All fields required"}
      ]_vars

\* C2: a step never deletes a contribution: every contribution of the store
\* is still there after the step, under the same member (in v2 under the same
\* id; its amount and date may have changed).
ContributionsNeverDeleted ==
    [][ /\ \A i \in 1..Len(members) :
              \E j \in 1..Len(members') :
                  /\ members'[j].member_id = members[i].member_id
                  /\ Len(members'[j].contributions) >= Len(members[i].contributions)
                  /\ SubSeq(members'[j].contributions, 1,
                            Len(members[i].contributions)) = members[i].contributions
        /\ \A i \in 1..Len(db_contributions) :
              \E j \in 1..Len(db_contributions') :
                  /\ db_contributions'[j].id = db_contributions[i].id
                  /\ db_contributions'[j].member_id = db_contributions[i].member_id
      ]_vars

\* C3: the interest of a contribution dated today or later is exactly 0, the
\* interest of any stored contribution is never negative, and no member's
\* total value is below the member's principal.
FutureInterestIsZero ==
    /\ \A i \in 1..Len(members) : \A k \in 1..Len(members[i].contributions) :
          LET c == members[i].contributions[k]
          IN /\ c.date >= today => compute_interest_v1(c.amount, c.date) = 0
             /\ compute_interest_v1(c.amount, c.date) >= 0
    /\ \A i \in 1..Len(members) :
          compute_totals_v1(i).total_value >= compute_totals_v1(i).principal
    /\ \A k \in 1..Len(db_contributions) :
          LET c == fetch_contributions(<<>>)[k]
          IN /\ c.date >= today => compute_interest_v2(c.amount, c.date) = 0
             /\ compute_interest_v2(c.amount, c.date) >= 0

\* C4: adding a contribution for a member_id that is not registered fails
\* with an unknown-member error and leaves the store unchanged; after every
\* step each stored contribution belongs to a registered member.
UnknownMemberRejected ==
    [][ /\ (last'.op = "add_contribution"
                /\ KeyIndex(last'.arg) = 0 /\ ~Registered(last'.arg))
            => (StoresUnchanged /\ last'.msg \in {"Member ID not found!", "APIError"})
        /\ \A k \in 1..Len(db_contributions') :
              \E i \in 1..Len(db_members') :
                  db_members'[i].member_id = db_contributions'[k].member_id
      ]_vars

\* an unregistered member_id was given to "Add Contribution" of a store that
\* holds members, and was refused
UnknownMemberRefused ==
    /\ last.op = "add_contribution"
    /\ last.msg = "Member ID not found!"
    /\ members /= <<>>
    /\ KeyIndex(last.arg) = 0

\* C5: update_contribution with a contribution_id the store does not hold
\* fails: the caller is not told of a success, and the store is unchanged.
UpdateOfUnknownIdFails ==
    [][ (last'.op = "update_contribution" /\ ~Stored(last'.arg))
        => (StoresUnchanged /\ last'.msg /= "Contribution updated successfully")
      ]_vars

\* C6: every stored contribution has an amount above 0.
AmountsPositive ==
    /\ \A i \in 1..Len(members) : \A k \in 1..Len(members[i].contributions) :
          members[i].contributions[k].amount > 0
    /\ \A k \in 1..Len(db_contributions) : db_contributions[k].amount > 0

\* contributions are stored, in either store, after an add or an update
AmountsStored ==
    /\ last.op \in {"add_contribution", "update_contribution"}
    /\ last.msg \in {"Contribution added successfully!", "Contribution added",
                     "Contribution updated successfully"}
    /\ \/ \E i \in 1..Len(members) : Len(members[i].contributions) = MaxContribs
       \/ Len(db_contributions) = MaxContribs

\* the sum of the members' total values in a list of statements
TotalOf(out) == SumSeq([i \in 1..Len(out) |-> out[i].total_value])

\* C7: in the statements of all members, each total value is principal plus
\* interest, each ratio is total_value / grand_total with grand_total the sum
\* of all total values, the ratios sum to 1 when grand_total > 0, and every
\* ratio is 0 when grand_total is 0.
RatiosSumToOne ==
    last.op = "statements" =>
        LET out == last.out
            grand_total == TotalOf(out)
        IN /\ \A i \in 1..Len(out) :
                out[i].total_value = out[i].principal + out[i].interest
           /\ grand_total > 0 =>
                /\ \A i \in 1..Len(out) :
                      out[i].ratio = Fraction(out[i].total_value, grand_total)
                /\ SumSeq([i \in 1..Len(out) |-> out[i].ratio[1]]) = grand_total
           /\ grand_total = 0 => \A i \in 1..Len(out) : out[i].ratio = Zero

\* statements of two members who both hold value
TwoMemberStatements ==
    /\ last.op = "statements"
    /\ \E i, j \in 1..Len(last.out) :
          /\ i /= j
          /\ last.out[i].total_value > 0
          /\ last.out[j].total_value > 0
          /\ last.out[i].interest /= 0

\* C8: every row of the member ledger carries a running balance: the first
\* row's is its own total value, each later row's is the previous row's
\* running balance plus its own total value.
LedgerRunningBalance ==
    last.op = "ledger" =>
        \A k \in 1..Len(last.out) :
            /\ "Running_Balance" \in DOMAIN last.out[k]
            /\ last.out[k].Running_Balance =
                  (IF k = 1 THEN 0 ELSE last.out[k - 1].Running_Balance)
                      + last.out[k].Total_Value

\* position of a contribution id in the contributions table
RowOf(id) == CHOOSE k \in 1..Len(db_contributions) : db_contributions[k].id = id

\* C9: the ledger of a member holds exactly that member's contributions, by
\* date ascending, contributions of one date in the order of their insertion.
LedgerSortedByDate ==
    (last.op = "ledger" /\ last.msg = "") =>
        LET out == last.out
        IN /\ { out[k].id : k \in 1..Len(out) } =
                { db_contributions[k].id : k \in
                    { n \in 1..Len(db_contributions) :
                        db_contributions[n].member_id = last.arg } }
           /\ \A i, j \in 1..Len(out) :
                i < j => \/ out[i].date < out[j].date
                         \/ /\ out[i].date = out[j].date
                            /\ RowOf(out[i].id) < RowOf(out[j].id)

\* C10: a successful update_contribution changes nothing but the amount and
\* the date of the contribution with that id: its id and member_id, every
\* other contribution and every member stay.
UpdateChangesOnlyAmountAndDate ==
    [][ (last'.op = "update_contribution"
            /\ last'.msg = "Contribution updated successfully")
        => /\ members' = members
           /\ db_members' = db_members
           /\ Len(db_contributions') = Len(db_contributions)
           /\ \A k \in 1..Len(db_contributions) :
                /\ db_contributions'[k].id = db_contributions[k].id
                /\ db_contributions'[k].member_id = db_contributions[k].member_id
                /\ db_contributions[k].id /= last'.arg
                      => db_contributions'[k] = db_contributions[k]
      ]_vars

\* an update has changed one of two differing contributions
UpdatedOneOfTwo ==
    /\ last.op = "update_contribution"
    /\ last.msg = "Contribution updated successfully"
    /\ Len(db_contributions) = 2
    /\ Stored(last.arg)
    /\ db_contributions[1].amount /= db_contributions[2].amount
    /\ db_contributions[1].date /= db_contributions[2].date

====
